---- MODULE Spec2Model ----
(***************************************************************************)
(* Stepper carriage controller (pigpio waveforms + limit-switch callbacks) *)
(* of control/stepper_control.py and control_2/stepper_control.py.         *)
(*                                                                         *)
(* Three execution contexts share the controller object:                   *)
(*   - the calling thread(s) running move_steps / home,                    *)
(*   - pigpio's callback thread running the FALLING-edge handlers,         *)
(*   - the DMA wave engine emitting STEP pulses.                           *)
(* Python statements that touch shared state are separate atomic steps.    *)
(***************************************************************************)
EXTENDS Integers, Sequences, FiniteSets, TLC

\* ---------------------------------------------------------------- bounds
MaxChannel == 2
MaxPending == 2
PulseCap == 2
MaxInit == 2
MaxTrChannel == 3
MaxBurst == 3
TickUs == 1000

\* ------------------------------------------------------- program constants
CHANNEL_SPACING_CM == 19
TRAVEL_PER_REV_CM == 4
STEPPER_STEPS_PER_REV == 200
MICROSTEPPING == 1
STEPPER_DIR_POLARITY == 1
HOME_CLEARANCE_CM == 5
PULLEY_TEETH == 20
BELT_PITCH_MM == 2
PIGPIO_GLITCH_US == 2000
\* the half-periods config.py sets, in tenths of a microsecond
STEPPER_STEP_DELAY_S == 8000
HOME_STEP_DELAY_S == 50000

None == "None"
Side == {"Left", "Right"}
Variants == {"control", "control_2"}
Channels == 0..MaxChannel
Callers == {1, 2}

VARIABLES
  variant,          \* which facade module is loaded
  sw,               \* sw[s] = TRUE: switch s reads active (pin level 0)
  pending,          \* edge notifications queued for pigpio's callback thread
  registered,       \* callbacks registered with pigpio: <<owner, side>>
  cbs,              \* self._cbs, the list of callback handles
  stopped_reason,   \* self._stopped_reason (None or the label in the text)
  stopped_which,    \* self._stopped_which
  tx,               \* wave transmission: "idle", "chain" or "repeat"
  remaining,        \* periods still to be sent by the running chain
  waves,            \* wave ids that exist in the daemon
  dir_pin,          \* level last written to the DIR line
  pulses,           \* STEP pulses emitted since the latest call began
  call,             \* call[c]: the frame of caller c's motion call
  cbpc,             \* position of the callback thread inside _cb
  cblabel,          \* label of the handler being run
  cbtodo,           \* matching handlers still to run for this notification
  cblevel,          \* level argument of the handler being run (0: the pin fell)
  cut,              \* history: label of the handler that stopped the wave in this call
  quiet,            \* history: no switch has read active since this call began
  cfg_travel,       \* config.TRAVEL_PER_REV_CM (0: missing or not positive)
  cfg_enable,       \* config.STEPPER_ENABLE_PIN is not None
  daemon,           \* the pigpio daemon is reachable
  stepper,          \* module global _stepper: 0 for None, else the instance
  connects,         \* pigpio.pi() connections opened so far
  setups,           \* runs of the IO setup in __init__ so far
  en_level,         \* level driven on the enable line (-1: never driven)
  pi_open,          \* the latest controller's connection is open
  hist,             \* history: the latest two init_stepper / cleanup_all calls
  cfg_spacing,      \* config.CHANNEL_SPACING_CM
  cfg_spr,          \* config.STEPPER_STEPS_PER_REV
  cfg_step_delay,   \* config.STEPPER_STEP_DELAY_S, in tenths of a microsecond
  cfg_home_delay,   \* config.HOME_STEP_DELAY_S, in tenths of a microsecond
  wave_def,         \* <<HIGH us, LOW us>> of the period handed to wave_add_generic
  to_log,           \* history: to_log[n], steps move_to_channel(n) last commanded
  dir_log,          \* history: dir_log[op], DIR level the facade call op last wrote
  ls_cb,            \* sensors/limit_switch: sides whose _cb_left / _cb_right is set
  ls_pending,       \* edge notifications queued on limit_switch's own connection
  ls_last,          \* history: <<side, activated>> of the latest on_change call
  raw,              \* raw[s]: electrical level of a pin whose bounce is followed
  age,              \* age[s]: ticks (of TickUs) since raw[s] last changed
  deb,              \* history per followed pin: the current burst of transitions
  mainpc,           \* position of main() in its startup, loop and finally block
  main_ch,          \* main(): the channel of the running cycle
  trapdoor,         \* the trapdoor servo: "closed" or "open"
  cyc,              \* history: what this cycle's move_to_channel returned
  main_prev,        \* history: <<op, outcome>> of the motion call main() left last
  ref               \* history: module and result of the latest directed move

hwVars == <<sw, pending, registered, tx, remaining, waves, dir_pin, pulses>>
objVars == <<cbs, stopped_reason, stopped_which>>
cbVars == <<cbpc, cblabel, cbtodo, cblevel>>
\* configuration and bookkeeping that no step of a motion call changes
cfgVars == <<cfg_spacing, cfg_spr, cfg_step_delay, cfg_home_delay>>
logVars == <<to_log, dir_log>>
lsVars == <<ls_cb, ls_pending, ls_last>>
debVars == <<raw, age, deb>>
xVars == <<cfgVars, logVars, lsVars, debVars, wave_def>>
coreLife == <<cfg_travel, cfg_enable, daemon, stepper, connects, setups,
              en_level, pi_open, hist>>
mainVars == <<mainpc, main_ch, trapdoor, cyc, main_prev, ref>>
lifeVars == <<coreLife, xVars, mainVars>>
\* all of lifeVars but the histories / but limit_switch's state
notLog == <<coreLife, cfgVars, lsVars, debVars, wave_def, mainVars>>
notLs == <<coreLife, cfgVars, logVars, debVars, wave_def, mainVars>>
notDeb == <<coreLife, cfgVars, logVars, lsVars, wave_def, mainVars>>
notWave == <<coreLife, cfgVars, logVars, lsVars, debVars, mainVars>>
vars == <<variant, sw, pending, registered, cbs, stopped_reason, stopped_which,
          tx, remaining, waves, dir_pin, pulses, call, cbpc, cblabel, cbtodo, cut,
          quiet, cfg_travel, cfg_enable, daemon, stepper, connects, setups,
          en_level, pi_open, hist, cfg_spacing, cfg_spr, to_log, dir_log,
          cblevel, ls_cb, ls_pending, ls_last, raw, age, deb,
          cfg_step_delay, cfg_home_delay, wave_def, mainpc, main_ch, trapdoor,
          cyc, main_prev, ref>>

\* ------------------------------------------------------------ translator
Max(a, b) == IF a >= b THEN a ELSE b

\* Python round(): nearest integer, ties to even, of num/den (num >= 0, den > 0)
RoundHalfEven(num, den) ==
  LET q == num \div den
      r == num % den
  IN  IF 2 * r < den THEN q
      ELSE IF 2 * r > den THEN q + 1
      ELSE IF q % 2 = 0 THEN q ELSE q + 1

effective_steps_per_rev == cfg_spr * MICROSTEPPING

\* `not travel_per_rev_cm or travel_per_rev_cm <= 0` is false
TravelValid(t) == t > 0

\* control uses the configured value (and raises when it is not valid);
\* control_2 falls back to the belt geometry
travel_per_rev_cm(v) ==
  IF TravelValid(cfg_travel) \/ v = "control"
  THEN cfg_travel
  ELSE (PULLEY_TEETH * BELT_PITCH_MM) \div 10

\* a translation that truncates instead of rounding
steps_for_distance_cm_trunc(v, distance_cm) ==
  (distance_cm * cfg_spr * (IF v = "control" THEN 1 ELSE MICROSTEPPING))
    \div travel_per_rev_cm(v)

steps_for_distance_cm(v, distance_cm) ==
  IF v = "control"
  THEN RoundHalfEven(distance_cm * cfg_spr, travel_per_rev_cm(v))
  ELSE RoundHalfEven(distance_cm * effective_steps_per_rev, travel_per_rev_cm(v))

\* a translation that takes channel 0 as the origin
move_to_channel_steps_origin0(v, channel) ==
  steps_for_distance_cm(v, cfg_spacing * Max(0, channel))

\* signed step count handed to move_steps by move_to_channel(channel)
move_to_channel_steps(v, channel) ==
  steps_for_distance_cm(v, cfg_spacing * Max(0, channel - 1))

\* a move_back() without the floor at zero under the clearance
move_back_steps_unclamped(v, channel) ==
  0 - steps_for_distance_cm(v,
        cfg_spacing * Max(0, channel - 1) - HOME_CLEARANCE_CM)

\* a move_back() that adds the clearance to the distance
move_back_steps_plus(v, channel) ==
  0 - steps_for_distance_cm(v,
        Max(0, cfg_spacing * Max(0, channel - 1) + HOME_CLEARANCE_CM))

\* a move_back() that forgets the clearance
move_back_steps_noclear(v, channel) ==
  0 - steps_for_distance_cm(v, Max(0, cfg_spacing * Max(0, channel - 1)))

\* signed step count handed to move_steps by move_back(channel)
move_back_steps(v, channel) ==
  0 - steps_for_distance_cm(v,
        Max(0, cfg_spacing * Max(0, channel - 1) - HOME_CLEARANCE_CM))

Abs(n) == IF n < 0 THEN 0 - n ELSE n

\* repeat count carried by the chain [255, 0, wid, 255, 1, lo, hi]
ChainCount(count) == (count % 256) + 256 * ((count \div 256) % 256)

\* level written to DIR: control writes 1 forward / 0 backward; control_2 _set_dir
DirLevel(v, forward) ==
  IF v = "control"
  THEN (IF forward THEN 1 ELSE 0)
  ELSE LET logical == IF forward THEN 0 ELSE 1
       IN  IF STEPPER_DIR_POLARITY < 0 THEN 1 - logical ELSE logical

\* ------------------------------------------------------------------ frames
IdleFrame ==
  [pc |-> "idle", op |-> None, steps |-> 0, wid |-> 0 - 1, i |-> 1,
   exc |-> FALSE, status |-> None, which |-> None, err |-> None,
   delay |-> 0, us |-> 0, freq |-> 0]

Frame(c) == call[c]
Goto(c, p) == call' = [call EXCEPT ![c].pc = p]
SetFrame(c, f) == call' = [call EXCEPT ![c] = f]

\* the record hist keeps of one init_stepper / cleanup_all call: whether it
\* raised, the instance it returned (0: none), whether _stepper was set at
\* entry, and the release steps it attempted
LifeRecord(op, raised, ret, had, tried) ==
  [op |-> op, raised |-> raised, ret |-> ret, had |-> had, tried |-> tried]

Push(h, r) == IF Len(h) < 2 THEN Append(h, r) ELSE <<h[2], r>>

\* no call in progress, nothing registered, transmitted or recorded
Quiescent ==
  /\ pending = <<>>
  /\ registered = {}
  /\ cbs = <<>>
  /\ stopped_reason = None
  /\ stopped_which = None
  /\ tx = "idle"
  /\ remaining = 0
  /\ waves = {}
  /\ wave_def = <<>>
  /\ dir_pin = 0
  /\ pulses = 0
  /\ call = [c \in Callers |-> IdleFrame]
  /\ cbpc = "idle"
  /\ cblabel = None
  /\ cbtodo = 0
  /\ cblevel = 0
  /\ ls_cb = {}
  /\ ls_pending = <<>>
  /\ ls_last = <<>>
  /\ cut = None
  /\ quiet = FALSE

\* no main() is followed: the facade is called in any order
NoLoop ==
  /\ mainpc = "none"
  /\ main_ch = 0
  /\ trapdoor = "closed"
  /\ cyc = None
  /\ main_prev = <<>>
  /\ ref = <<>>

\* a history keeps the keys it was started with: <<>> records nothing
LogAt(log, k, v) == IF k \in DOMAIN log THEN [log EXCEPT ![k] = v] ELSE log

\* the pins are taken as the glitch filter presents them: no raw level followed
NoBounce ==
  /\ raw = <<>>
  /\ age = <<>>
  /\ deb = <<>>

ShippedDelays ==
  /\ cfg_step_delay = STEPPER_STEP_DELAY_S
  /\ cfg_home_delay = HOME_STEP_DELAY_S

\* the values config.py ships; no history of the translation is kept
ShippedConfig ==
  /\ cfg_spacing = CHANNEL_SPACING_CM
  /\ cfg_spr = STEPPER_STEPS_PER_REV
  /\ ShippedDelays
  /\ to_log = <<>>
  /\ dir_log = <<>>
  /\ NoBounce

\* the controller as init_stepper() built it under config.py
Init ==
  /\ variant \in Variants
  /\ sw \in [Side -> BOOLEAN]
  /\ Quiescent
  /\ NoLoop
  /\ ShippedConfig
  /\ cfg_travel = TRAVEL_PER_REV_CM
  /\ cfg_enable = FALSE
  /\ daemon = TRUE
  /\ stepper = 1
  /\ connects = 1
  /\ setups = 1
  /\ en_level = 0 - 1
  /\ pi_open = TRUE
  /\ hist = <<LifeRecord("init_stepper", FALSE, 1, FALSE, {})>>


\* ---------------------------------------------------------------- lifecycle
\* an init_stepper() that builds a controller on every call
HasInstanceNever(s) == FALSE

\* init_stepper: if _stepper is not None: return _stepper
HasInstance(s) == s # 0

\* a constructor that hands the instance back although the daemon is unreachable
AssignedAlways(connected, inst) == inst

\* _stepper = _StepperControlPigpio(...): bound only if __init__ returns;
\* __init__ raises RuntimeError when not self.pi.connected
Assigned(connected, inst) == IF connected THEN inst ELSE 0

\* init_stepper(), called between motion calls
InitStepper ==
  /\ call[1].pc = "idle"
  /\ IF HasInstance(stepper)
     THEN /\ hist' = Push(hist, LifeRecord("init_stepper", FALSE, stepper, TRUE, {}))
          /\ UNCHANGED <<stepper, connects, setups, en_level, pi_open, objVars>>
     ELSE /\ connects < MaxInit
          /\ connects' = connects + 1
          /\ stepper' = Assigned(daemon, connects + 1)
          /\ setups' = IF daemon THEN setups + 1 ELSE setups
          /\ en_level' = IF daemon /\ cfg_enable THEN 0 ELSE en_level
          /\ pi_open' = daemon
          /\ IF daemon
             THEN cbs' = <<>> /\ stopped_reason' = None /\ stopped_which' = None
             ELSE UNCHANGED objVars
          /\ hist' = Push(hist, LifeRecord("init_stepper", ~daemon,
                                           IF daemon THEN connects + 1 ELSE 0,
                                           FALSE, {}))
  /\ UNCHANGED <<cfg_travel, cfg_enable, daemon, quiet, variant, cut, hwVars,
                 call, cbVars, xVars, mainVars>>

\* the release steps of cleanup(), in program order
ReleaseSteps == <<"wave_stop", "enable", "filter_Left", "filter_Right", "close">>

\* the steps this configuration has (the enable write only with an enable pin)
PresentSteps == {k \in 1..Len(ReleaseSteps) : ReleaseSteps[k] = "enable" => cfg_enable}

\* only the wave stop sits in a try/except
Swallowed(k) == ReleaseSteps[k] = "wave_stop"

\* steps attempted when step f raises (f = 0: none raises)
Tried(f) ==
  IF f = 0 \/ Swallowed(f) THEN PresentSteps ELSE {k \in PresentSteps : k <= f}

Done(f, name) == \E k \in Tried(f) : ReleaseSteps[k] = name /\ k # f

\* a cleanup_all() that resets the global only after cleanup() returned
AfterCleanupNoFinally(raised, inst) == IF raised THEN inst ELSE 0

\* cleanup_all: try: _stepper.cleanup() finally: _stepper = None
AfterCleanup(raised, inst) == 0

\* main(): the finally block has run once cleanup_all() is left, raising or not
MainLeave(at) == IF at = "finally" THEN "exit" ELSE at

\* cleanup_all(), called between motion calls; any one release step may raise
CleanupAll ==
  /\ call[1].pc = "idle"
  /\ mainpc' = MainLeave(mainpc)
  /\ UNCHANGED <<main_ch, trapdoor, cyc, main_prev, ref>>
  /\ IF stepper = 0
     THEN /\ hist' = Push(hist, LifeRecord("cleanup_all", FALSE, 0, FALSE, {}))
          /\ UNCHANGED <<stepper, en_level, pi_open, tx, remaining, registered,
                         pending>>
     ELSE \E f \in {0} \cup PresentSteps :
          /\ tx' = IF Done(f, "wave_stop") THEN "idle" ELSE tx
          /\ remaining' = IF Done(f, "wave_stop") THEN 0 ELSE remaining
          /\ en_level' = IF Done(f, "enable") THEN 1 ELSE en_level
          /\ pi_open' = IF Done(f, "close") THEN FALSE ELSE pi_open
          /\ registered' = IF Done(f, "close") THEN {} ELSE registered
          /\ pending' = IF Done(f, "close") THEN <<>> ELSE pending
          /\ stepper' = AfterCleanup(f # 0 /\ ~Swallowed(f), stepper)
          /\ hist' = Push(hist, LifeRecord("cleanup_all", f # 0 /\ ~Swallowed(f),
                                           0, TRUE, Tried(f)))
  /\ UNCHANGED <<cfg_travel, cfg_enable, daemon, connects, setups, quiet, variant,
                 cut, sw, waves, dir_pin, pulses, objVars, call, cbVars, xVars>>

\* the pigpio daemon stops or starts
DaemonFlip ==
  /\ daemon' = ~daemon
  /\ UNCHANGED <<cfg_travel, cfg_enable, stepper, connects, setups, en_level,
                 pi_open, hist, quiet, variant, cut, hwVars, objVars, call, cbVars,
                 xVars, mainVars>>

FacadeOps == {"home", "move_to_channel", "move_back"}

\* a facade whose motion calls go ahead without the check
IsNoneNever(s) == FALSE

\* the test `_stepper is None` at the head of the three motion calls
IsNone(s) == s = 0

\* home_stepper / move_to_channel / move_back: if _stepper is None: raise
NotInitialized(c) ==
  /\ Frame(c).pc = "idle"
  /\ IsNone(stepper)
  /\ \E op \in FacadeOps :
       SetFrame(c, [IdleFrame EXCEPT !.pc = "raised", !.op = op,
                      !.err = "not_initialized"])
  /\ UNCHANGED <<lifeVars, quiet, variant, cut, hwVars, objVars, cbVars>>

\* control's _steps_for_distance_cm: raise ValueError("TRAVEL_PER_REV_CM must be
\* defined and > 0 ...") inside move_to_channel / move_back
MoveConfigError(c) ==
  /\ Frame(c).pc = "idle"
  /\ ~IsNone(stepper)
  /\ variant = "control"
  /\ ~TravelValid(cfg_travel)
  /\ \E op \in FacadeOps \ {"home"} :
       SetFrame(c, [IdleFrame EXCEPT !.pc = "raised", !.op = op,
                      !.err = "ValueError"])
  /\ UNCHANGED <<lifeVars, quiet, variant, cut, hwVars, objVars, cbVars>>

\* ------------------------------------------------------------ facade entry
\* move_to_channel(channel): translate, then move_steps(steps); steps == 0
\* returns {"status": "ok", "which": None} at once
MoveToChannel(c, channel) ==
  /\ Frame(c).pc = "idle"
  /\ ~IsNone(stepper)
  /\ variant = "control" => TravelValid(cfg_travel)
  /\ LET steps == move_to_channel_steps(variant, channel)
     IN  /\ IF steps = 0
            THEN SetFrame(c, [IdleFrame EXCEPT !.pc = "returned",
                             !.op = "move_to_channel", !.status = "ok"])
            ELSE SetFrame(c, [IdleFrame EXCEPT !.pc = "m_pre",
                             !.op = "move_to_channel", !.steps = steps,
                             !.delay = cfg_step_delay])
         /\ to_log' = LogAt(to_log, channel, steps)
  /\ pulses' = 0
  /\ cut' = None
  /\ quiet' = (\A s \in Side : ~sw[s])
  /\ UNCHANGED <<notLog, dir_log, variant, sw, pending, registered, tx, remaining,
                 waves, dir_pin, objVars, cbVars>>

\* move_back(channel): move_steps(-steps)
MoveBack(c, channel) ==
  /\ Frame(c).pc = "idle"
  /\ ~IsNone(stepper)
  /\ variant = "control" => TravelValid(cfg_travel)
  /\ LET steps == move_back_steps(variant, channel)
     IN  IF steps = 0
         THEN SetFrame(c, [IdleFrame EXCEPT !.pc = "returned",
                             !.op = "move_back", !.status = "ok"])
         ELSE SetFrame(c, [IdleFrame EXCEPT !.pc = "m_pre",
                             !.op = "move_back", !.steps = steps,
                             !.delay = cfg_step_delay])
  /\ pulses' = 0
  /\ cut' = None
  /\ quiet' = (\A s \in Side : ~sw[s])
  /\ UNCHANGED <<lifeVars, variant, sw, pending, registered, tx, remaining,
                 waves, dir_pin, objVars, cbVars>>

\* home_stepper(): _stepper.home(step_delay)
HomeStepper(c) ==
  /\ Frame(c).pc = "idle"
  /\ ~IsNone(stepper)
  /\ SetFrame(c, [IdleFrame EXCEPT
                    !.pc = "h_pre", !.op = "home", !.delay = cfg_home_delay])
  /\ pulses' = 0
  /\ cut' = None
  /\ quiet' = (\A s \in Side : ~sw[s])
  /\ UNCHANGED <<lifeVars, variant, sw, pending, registered, tx, remaining,
                 waves, dir_pin, objVars, cbVars>>

\* ---------------------------------------------------------------- move_steps
\* a pre-check that refuses when either switch reads active
PrecheckEither(forward) ==
  IF sw["Right"] THEN "Right" ELSE IF sw["Left"] THEN "Left" ELSE None

\* the two guards at the head of move_steps: the side that refuses the move
Precheck(forward) ==
  IF forward /\ sw["Right"] THEN "Right"
  ELSE IF (~forward) /\ sw["Left"] THEN "Left"
  ELSE None

\* control: refuse to move into an already-active limit, else write DIR
MovePrecheck(c) ==
  /\ variant = "control"
  /\ Frame(c).pc = "m_pre"
  /\ LET forward == Frame(c).steps >= 0
         side == Precheck(forward)
     IN  IF side # None
         THEN /\ SetFrame(c, [Frame(c) EXCEPT !.pc = "returned",
                                !.status = "stopped", !.which = side])
              /\ UNCHANGED <<dir_pin, dir_log>>
         ELSE /\ Goto(c, "i_reason")
              /\ dir_pin' = DirLevel(variant, forward)
              /\ dir_log' = LogAt(dir_log, Frame(c).op, DirLevel(variant, forward))
  /\ UNCHANGED <<notLog, to_log, quiet, variant, cut, sw, pending, registered, tx, remaining, waves,
                 pulses, objVars, cbVars>>

\* control_2: no pre-check, self._set_dir(forward)
MoveSetDir(c) ==
  /\ variant = "control_2"
  /\ Frame(c).pc = "m_pre"
  /\ Goto(c, "i_reason")
  /\ dir_pin' = DirLevel(variant, Frame(c).steps >= 0)
  /\ dir_log' = LogAt(dir_log, Frame(c).op, DirLevel(variant, Frame(c).steps >= 0))
  /\ UNCHANGED <<notLog, to_log, quiet, variant, cut, sw, pending, registered, tx, remaining, waves,
                 pulses, objVars, cbVars>>

\* ---------------------------------------------------------------------- home
\* control: first iteration of the pre-check loop (Left pin)
HomePrecheckLeft(c) ==
  /\ variant = "control"
  /\ Frame(c).pc = "h_pre"
  /\ IF sw["Left"]
     THEN Goto(c, "returned")
     ELSE Goto(c, "h_preR")
  /\ UNCHANGED <<lifeVars, quiet, variant, cut, hwVars, objVars, cbVars>>

\* control: second iteration of the pre-check loop (Right pin)
HomePrecheckRight(c) ==
  /\ Frame(c).pc = "h_preR"
  /\ IF sw["Right"]
     THEN Goto(c, "returned")
     ELSE Goto(c, "h_dir")
  /\ UNCHANGED <<lifeVars, quiet, variant, cut, hwVars, objVars, cbVars>>

\* a home() that drives DIR high, as its log line announces
HomeDirHigh(v) == 1

\* DIR for homing: control writes the literal 0, control_2 _set_dir(forward=False)
HomeDirLevel(v) == IF v = "control" THEN 0 ELSE DirLevel(v, FALSE)

HomeSetDir(c) ==
  /\ \/ Frame(c).pc = "h_dir"
     \/ Frame(c).pc = "h_pre" /\ variant = "control_2"
  /\ Goto(c, "i_reason")
  /\ dir_pin' = HomeDirLevel(variant)
  /\ dir_log' = LogAt(dir_log, "home", HomeDirLevel(variant))
  /\ UNCHANGED <<notLog, to_log, quiet, variant, cut, sw, pending, registered, tx, remaining, waves,
                 pulses, objVars, cbVars>>

\* ---------------------------------------------------------- _install_callbacks
\* self._cbs.clear(); self._stopped_reason = None
InstallResetReason(c) ==
  /\ Frame(c).pc = "i_reason"
  /\ cbs' = <<>>
  /\ stopped_reason' = None
  /\ Goto(c, "i_which")
  /\ UNCHANGED <<lifeVars, quiet, variant, cut, hwVars, stopped_which, cbVars>>

\* self._stopped_which = None
InstallResetWhich(c) ==
  /\ Frame(c).pc = "i_which"
  /\ stopped_which' = None
  /\ Goto(c, "i_left")
  /\ UNCHANGED <<lifeVars, quiet, variant, cut, hwVars, cbs, stopped_reason, cbVars>>

\* the sides the call registers a FALLING_EDGE callback for
ArmedSides(forward, isHome) == Side

InstallSide(c, s, next) ==
  /\ IF s \in ArmedSides(Frame(c).steps >= 0, Frame(c).op = "home")
     THEN /\ registered' = registered \cup {<<c, s>>}
          /\ cbs' = Append(cbs, <<c, s>>)
     ELSE UNCHANGED <<registered, cbs>>
  /\ Goto(c, next)
  /\ UNCHANGED <<lifeVars, quiet, variant, cut, sw, pending, tx, remaining, waves, dir_pin, pulses,
                 stopped_reason, stopped_which, cbVars>>

InstallLeft(c) ==
  /\ Frame(c).pc = "i_left"
  /\ InstallSide(c, "Left", "i_right")

InstallRight(c) ==
  /\ Frame(c).pc = "i_right"
  /\ InstallSide(c, "Right", "build")

\* ---------------------------------------------------------- _build_period_wave
\* a builder that clamps at 1 microsecond, under the driver's minimum
HalfPeriodUsMin1(delay) == Max(1, RoundHalfEven(delay, 10))

\* us = max(2, int(round(half_period_s * 1_000_000)))
HalfPeriodUs(delay) == Max(2, RoundHalfEven(delay, 10))

\* move_steps: freq_exact = 1_000_000.0 / (2.0 * us), printed with no decimals
\* (kept here as whole hertz, rounded down)
ReportedFreq(us) == 1000000 \div (2 * us)

\* wave_clear(); wave_add_generic([pulse(STEP, 0, us), pulse(0, STEP, us)]);
\* wid = wave_create(); return wid, us -- and move_steps' frequency report
BuildPeriodWave(c) ==
  /\ Frame(c).pc = "build"
  /\ waves' = {0}
  /\ LET us == HalfPeriodUs(Frame(c).delay)
     IN  /\ wave_def' = <<us, us>>
         /\ SetFrame(c, [Frame(c) EXCEPT !.pc = "start", !.wid = 0, !.us = us,
                            !.freq = IF Frame(c).op = "home" THEN 0
                                     ELSE ReportedFreq(us)])
  /\ UNCHANGED <<notWave, quiet, variant, cut, sw, pending, registered, tx, remaining, dir_pin,
                 pulses, objVars, cbVars>>

\* ------------------------------------------------------------ try: transmit
\* move_steps: self.pi.wave_chain(chain)
WaveChain(c) ==
  /\ Frame(c).pc = "start"
  /\ Frame(c).op # "home"
  /\ LET n == ChainCount(Abs(Frame(c).steps))
     IN  /\ remaining' = n
         /\ tx' = IF n = 0 THEN "idle" ELSE "chain"
  /\ Goto(c, "wait")
  /\ UNCHANGED <<lifeVars, quiet, variant, cut, sw, pending, registered, waves, dir_pin, pulses,
                 objVars, cbVars>>

\* home: self.pi.wave_send_repeat(wid)
WaveSendRepeat(c) ==
  /\ Frame(c).pc = "start"
  /\ Frame(c).op = "home"
  /\ tx' = "repeat"
  /\ remaining' = 0
  /\ Goto(c, "wait")
  /\ UNCHANGED <<lifeVars, quiet, variant, cut, sw, pending, registered, waves, dir_pin, pulses,
                 objVars, cbVars>>

\* a wait loop that never sees the transmission end
WaitBusyStuck(c) ==
  /\ Frame(c).pc = "wait"
  /\ Goto(c, "sleep")
  /\ UNCHANGED <<lifeVars, quiet, variant, cut, hwVars, objVars, cbVars>>

\* while self.pi.wave_tx_busy():
WaitBusy(c) ==
  /\ Frame(c).pc = "wait"
  /\ IF tx # "idle"
     THEN Goto(c, "sleep")
     ELSE SetFrame(c, [Frame(c) EXCEPT !.pc = "f_stop", !.i = 1])
  /\ UNCHANGED <<lifeVars, quiet, variant, cut, hwVars, objVars, cbVars>>

\*     time.sleep(self._monitor_sleep_s)
Sleep(c) ==
  /\ Frame(c).pc = "sleep"
  /\ Goto(c, "wait")
  /\ UNCHANGED <<lifeVars, quiet, variant, cut, hwVars, objVars, cbVars>>

\* _build_period_wave raises (pigpio.error from wave_add_generic/wave_create,
\* or wid < 0): the call is outside the try block, so the exception leaves
\* the call with no finally clause run
BuildFails(c) ==
  /\ Frame(c).pc = "build"
  /\ waves' = {}
  /\ wave_def' = <<>>
  /\ Goto(c, "raised")
  /\ UNCHANGED <<notWave, quiet, variant, cut, sw, pending, registered, tx, remaining, dir_pin,
                 pulses, objVars, cbVars>>

\* KeyboardInterrupt raised in the calling thread after _build_period_wave
\* returned and before the try statement is entered (the frame's exc flag
\* marks only exceptions raised inside the try block)
InterruptBeforeTry(c) ==
  /\ Frame(c).pc = "start"
  /\ Goto(c, "raised")
  /\ UNCHANGED <<lifeVars, quiet, variant, cut, hwVars, objVars, cbVars>>

\* KeyboardInterrupt raised in the calling thread inside the try block
Interrupt(c) ==
  /\ Frame(c).pc \in {"start", "wait", "sleep"}
  /\ ~Frame(c).exc
  /\ SetFrame(c, [Frame(c) EXCEPT !.pc = "f_stop", !.exc = TRUE, !.i = 1])
  /\ UNCHANGED <<lifeVars, quiet, variant, cut, hwVars, objVars, cbVars>>

\* ------------------------------------------------------------------ finally
\* a finally block that goes straight to _clear_callbacks, the wave left running
FinallyNoStop(c) ==
  /\ Frame(c).pc = "f_stop"
  /\ Goto(c, "f_clear")
  /\ UNCHANGED <<lifeVars, quiet, variant, cut, hwVars, objVars, cbVars>>

\* if self.pi.wave_tx_busy(): self.pi.wave_tx_stop()
FinallyStop(c) ==
  /\ Frame(c).pc = "f_stop"
  /\ tx' = "idle"
  /\ remaining' = 0
  /\ Goto(c, "f_clear")
  /\ UNCHANGED <<lifeVars, quiet, variant, cut, sw, pending, registered, waves, dir_pin, pulses,
                 objVars, cbVars>>

\* a _clear_callbacks that walks the list without cancelling
ClearCancelSkip(c) ==
  /\ Frame(c).pc = "f_clear"
  /\ Frame(c).i <= Len(cbs)
  /\ SetFrame(c, [Frame(c) EXCEPT !.i = @ + 1])
  /\ UNCHANGED <<lifeVars, quiet, variant, cut, hwVars, objVars, cbVars>>

\* _clear_callbacks: for cb in self._cbs: cb.cancel()
ClearCancel(c) ==
  /\ Frame(c).pc = "f_clear"
  /\ Frame(c).i <= Len(cbs)
  /\ registered' = registered \ {cbs[Frame(c).i]}
  /\ SetFrame(c, [Frame(c) EXCEPT !.i = @ + 1])
  /\ UNCHANGED <<lifeVars, quiet, variant, cut, sw, pending, tx, remaining, waves, dir_pin, pulses,
                 objVars, cbVars>>

\* _clear_callbacks: self._cbs.clear()
ClearList(c) ==
  /\ Frame(c).pc = "f_clear"
  /\ Frame(c).i > Len(cbs)
  /\ cbs' = <<>>
  /\ Goto(c, "f_delete")
  /\ UNCHANGED <<lifeVars, quiet, variant, cut, hwVars, stopped_reason, stopped_which, cbVars>>

\* self.pi.wave_delete(wid); then leave the finally block
FinallyDelete(c) ==
  /\ Frame(c).pc = "f_delete"
  /\ waves' = waves \ {Frame(c).wid}
  /\ wave_def' = IF waves \ {Frame(c).wid} = {} THEN <<>> ELSE wave_def
  /\ IF Frame(c).exc
     THEN Goto(c, "raised")
     ELSE IF Frame(c).op = "home"
     THEN Goto(c, "returned")
     ELSE Goto(c, "r_reason")
  /\ UNCHANGED <<notWave, quiet, variant, cut, sw, pending, registered, tx, remaining, dir_pin,
                 pulses, objVars, cbVars>>

\* if self._stopped_reason: return {"status": "stopped", "which": ...}
\* return {"status": "ok", "which": None}
\* (the read of _stopped_which follows the read of _stopped_reason; only the
\* handler writes between them, so one read point gives the same outcomes)
ReturnStatus(c) ==
  /\ Frame(c).pc = "r_reason"
  /\ IF stopped_reason # None
     THEN SetFrame(c, [Frame(c) EXCEPT !.pc = "returned", !.status = "stopped",
                         !.which = stopped_which])
     ELSE SetFrame(c, [Frame(c) EXCEPT !.pc = "returned", !.status = "ok"])
  /\ UNCHANGED <<lifeVars, quiet, variant, cut, hwVars, objVars, cbVars>>

\* the call's frame is popped; handles it left registered are now orphans
Retag(c, r) == IF r[1] = c THEN <<0, r[2]>> ELSE r

\* what a directed move handed back, and the pulses that were sent for it
Result(v, f, n) ==
  [by |-> v, op |-> f.op, steps |-> f.steps, status |-> f.status,
   which |-> f.which, pulses |-> n]

\* a loop that goes back to the button after move_back, home_stepper left out
MainAfterSkipHome(at, op, raised) ==
  CASE at = "none" -> "none"
    [] raised -> IF at = "startup_home" THEN "died" ELSE "finally"
    [] at = "startup_home" -> "startup_close"
    [] op = "move_to_channel" -> "open"
    [] OTHER -> "button"

\* main(): where control goes when the facade call op is left; an exception
\* leaves the loop for the finally block; startup is outside the try, where
\* an exception ends main() at once ("died")
MainAfter(at, op, raised) ==
  CASE at = "none" -> "none"
    [] raised -> IF at = "startup_home" THEN "died" ELSE "finally"
    [] at = "startup_home" -> "startup_close"
    [] op = "move_to_channel" -> "open"
    [] op = "move_back" -> "home"
    [] OTHER -> "button"

Return(c) ==
  /\ Frame(c).pc \in {"returned", "raised"}
  /\ mainpc' = MainAfter(mainpc, Frame(c).op, Frame(c).pc = "raised")
  /\ cyc' = IF mainpc = "to" /\ Frame(c).pc = "returned" THEN Frame(c).status ELSE cyc
  /\ main_prev' = IF mainpc = "none" THEN main_prev ELSE <<Frame(c).op, Frame(c).pc>>
  /\ ref' = IF ref # <<>> /\ Frame(c).pc = "returned" /\ Frame(c).op # "home"
            THEN Result(variant, Frame(c), pulses)
            ELSE ref
  /\ UNCHANGED <<main_ch, trapdoor>>
  /\ SetFrame(c, IdleFrame)
  /\ registered' = {Retag(c, r) : r \in registered}
  /\ cbs' = [k \in 1..Len(cbs) |-> Retag(c, cbs[k])]
  /\ pulses' = 0
  /\ cut' = None
  /\ quiet' = FALSE
  /\ UNCHANGED <<coreLife, xVars, variant, sw, pending, tx, remaining, waves,
                 dir_pin, stopped_reason, stopped_which, cbVars>>

\* ------------------------------------------------------------- wave engine
\* the DMA engine is observed only through wave_tx_busy(); between two
\* observations it has sent one more period (counted singly up to PulseCap)
\* or everything that was left
Chunks(r) == {r} \cup (IF pulses < PulseCap THEN {1} ELSE {})

EmitChain ==
  /\ tx = "chain"
  /\ \E k \in Chunks(remaining) :
       /\ remaining' = remaining - k
       /\ pulses' = pulses + k
       /\ tx' = IF remaining - k = 0 THEN "idle" ELSE "chain"
  /\ UNCHANGED <<lifeVars, quiet, variant, cut, sw, pending, registered, waves, dir_pin, objVars,
                 call, cbVars>>

EmitRepeat ==
  /\ tx = "repeat"
  /\ pulses < PulseCap
  /\ pulses' = pulses + 1
  /\ UNCHANGED <<lifeVars, quiet, variant, cut, sw, pending, registered, tx, remaining, waves,
                 dir_pin, objVars, call, cbVars>>

\* ------------------------------------------------------------ limit switches
Monitored(s) == \E r \in registered : r[2] = s

\* pi.callback(pin, edge, func): the level changes the registration reports
Reported(edge, level) ==
  \/ edge = "EITHER_EDGE"
  \/ edge = "FALLING_EDGE" /\ level = 0
  \/ edge = "RISING_EDGE" /\ level = 1

\* a controller that registers its handlers for both edges
InstallEdgeEither == "EITHER_EDGE"

\* _install_callbacks: self.pi.callback(pin, pigpio.FALLING_EDGE, make_cb(label))
InstallEdge == "FALLING_EDGE"

\* attach_callbacks: pi.callback(PIN, pigpio.EITHER_EDGE, _wrap(side))
AttachEdge == "EITHER_EDGE"

\* the pin of switch s changes to level: each connection queues a
\* notification when it holds a registration that reports the change
Notify(s, level) ==
  /\ IF Monitored(s) /\ Reported(InstallEdge, level)
     THEN /\ Len(pending) < MaxPending
          /\ pending' = Append(pending, <<s, level>>)
     ELSE UNCHANGED pending
  /\ IF s \in ls_cb /\ Reported(AttachEdge, level)
     THEN /\ Len(ls_pending) < MaxPending
          /\ ls_pending' = Append(ls_pending, <<s, level>>)
     ELSE UNCHANGED ls_pending

\* a glitch filter that is never installed
FilterSteadyOff(glitch_us) == 0

\* __init__: if self._glitch_us and self._glitch_us > 0:
\*               self.pi.set_glitch_filter(pin, self._glitch_us)
FilterSteady(glitch_us) == IF glitch_us > 0 THEN glitch_us ELSE 0

\* the configured debounce window and the installed filter's window, in ticks
Window == PIGPIO_GLITCH_US \div TickUs
Steady == FilterSteady(PIGPIO_GLITCH_US) \div TickUs

\* set_glitch_filter: a level change is reported once the level has been
\* stable for the window (pins whose raw level is not followed: any change)
FilterPasses(s, level) ==
  s \in DOMAIN raw => (raw[s] = level /\ age[s] >= Steady)

PinLevel(active) == IF active THEN 0 ELSE 1

\* the raw level of pin s changes: a transition shorter than the window
\* inside a burst, or the first one after the level had settled (the switch
\* closes only while the carriage moves, and bursts lie further apart than
\* the callback thread's latency)
RawEdge(s) ==
  /\ s \in DOMAIN raw
  /\ IF age[s] < Window
     THEN /\ deb[s].n < MaxBurst
          /\ deb' = [deb EXCEPT ![s].n = @ + 1]
     ELSE /\ raw[s] = PinLevel(sw[s])
          /\ raw[s] = 1 => tx # "idle"
          /\ pending = <<>> /\ cbpc = "idle"
          /\ deb' = [deb EXCEPT ![s] = [n |-> 1, hits |-> 0, from |-> raw[s]]]
  /\ raw' = [raw EXCEPT ![s] = 1 - @]
  /\ age' = [age EXCEPT ![s] = 0]
  /\ UNCHANGED <<notDeb, quiet, variant, cut, hwVars, objVars, call, cbVars>>

\* one tick of time passes
Tick ==
  /\ \E s \in DOMAIN age : age[s] < Window
  /\ age' = [s \in DOMAIN age |-> IF age[s] < Window THEN age[s] + 1 ELSE age[s]]
  /\ UNCHANGED <<notDeb, raw, deb, quiet, variant, cut, hwVars, objVars, call,
                 cbVars>>

\* switch s closes: the pin falls
Trip(s) ==
  /\ ~sw[s]
  /\ FilterPasses(s, 0)
  /\ sw' = [sw EXCEPT ![s] = TRUE]
  /\ Notify(s, 0)
  /\ quiet' = FALSE
  /\ UNCHANGED <<notLs, ls_cb, ls_last, variant, cut,
                 registered, tx, remaining, waves, dir_pin, pulses, objVars, call,
                 cbVars>>

\* switch s opens: the pin rises
Release(s) ==
  /\ sw[s]
  /\ FilterPasses(s, 1)
  /\ sw' = [sw EXCEPT ![s] = FALSE]
  /\ Notify(s, 1)
  /\ UNCHANGED <<notLs, ls_cb, ls_last, quiet, variant, cut,
                 registered, tx, remaining, waves, dir_pin, pulses, objVars, call,
                 cbVars>>

\* ------------------------------------------------- sensors/limit_switch.py
\* attach_callbacks(on_change): detach_callbacks(), then one callback per pin
LsAttach ==
  /\ ls_cb' = Side
  /\ UNCHANGED <<notLs, ls_pending, ls_last, quiet, variant,
                 cut, hwVars, objVars, call, cbVars>>

\* detach_callbacks(): cancel both and forget them
LsDetach ==
  /\ ls_cb # {}
  /\ ls_cb' = {}
  /\ UNCHANGED <<notLs, ls_pending, ls_last, quiet, variant,
                 cut, hwVars, objVars, call, cbVars>>

\* pigpio calls _cb(gpio, level, tick) for the next notification:
\* activated = (level == 0); on_change(side_label, activated, tick)
LsDispatch ==
  /\ ls_pending # <<>>
  /\ ls_pending' = Tail(ls_pending)
  /\ ls_last' = IF Head(ls_pending)[1] \in ls_cb
                THEN <<Head(ls_pending)[1], Head(ls_pending)[2] = 0>>
                ELSE ls_last
  /\ UNCHANGED <<notLs, ls_cb, quiet, variant, cut, hwVars,
                 objVars, call, cbVars>>

\* ---------------------------------------------------------- callback thread
\* pigpio's thread takes the next notification and calls the handlers that
\* are registered for its pin
Dispatch ==
  /\ cbpc = "idle"
  /\ pending # <<>>
  /\ LET s == Head(pending)[1]
         n == Cardinality({r \in registered : r[2] = s})
     IN  /\ pending' = Tail(pending)
         /\ IF n = 0
            THEN UNCHANGED cbVars
            ELSE /\ cbpc' = "c_busy"
                 /\ cblabel' = s
                 /\ cbtodo' = n - 1
                 /\ cblevel' = Head(pending)[2]
         /\ deb' = IF s \in DOMAIN deb /\ deb[s].hits + n <= 2
                   THEN [deb EXCEPT ![s].hits = @ + n]
                   ELSE deb
  /\ UNCHANGED <<notDeb, raw, age, quiet, variant, cut, sw, registered, tx, remaining, waves, dir_pin,
                 pulses, objVars, call>>

\* end of one handler run: next matching handler, or back to the queue
CbNext ==
  IF cbtodo > 0
  THEN /\ cbpc' = "c_busy"
       /\ cbtodo' = cbtodo - 1
       /\ UNCHANGED <<cblabel, cblevel>>
  ELSE /\ cbpc' = "idle"
       /\ cblabel' = None
       /\ cblevel' = 0
       /\ UNCHANGED cbtodo

\* _cb: if level == 0: if self.pi.wave_tx_busy():
CbBusy ==
  /\ cbpc = "c_busy"
  /\ IF cblevel = 0
     THEN /\ cbpc' = IF tx # "idle" THEN "c_stop" ELSE "c_check"
          /\ UNCHANGED <<cblabel, cbtodo, cblevel>>
     ELSE CbNext
  /\ UNCHANGED <<lifeVars, quiet, variant, cut, hwVars, objVars, call>>

\* _cb: self.pi.wave_tx_stop()
CbStop ==
  /\ cbpc = "c_stop"
  /\ tx' = "idle"
  /\ remaining' = 0
  /\ cbpc' = "c_check"
  /\ cut' = cblabel
  /\ UNCHANGED <<lifeVars, quiet, variant, sw, pending, registered, waves,
                 dir_pin, pulses, objVars, call, cblabel, cbtodo, cblevel>>

\* a handler that overwrites a cause already recorded
FirstWriteAlways(reason) == TRUE

\* the guard of the write in _cb
FirstWrite(reason) == reason = None

\* _cb: if self._stopped_reason is None:
CbCheck ==
  /\ cbpc = "c_check"
  /\ IF FirstWrite(stopped_reason)
     THEN /\ cbpc' = "c_reason"
          /\ UNCHANGED <<cblabel, cbtodo, cblevel>>
     ELSE CbNext
  /\ UNCHANGED <<lifeVars, quiet, variant, cut, hwVars, objVars, call>>

\* _cb: self._stopped_reason = f"[SAFETY] {label} switch triggered ..."
CbReason ==
  /\ cbpc = "c_reason"
  /\ stopped_reason' = cblabel
  /\ cbpc' = "c_which"
  /\ UNCHANGED <<lifeVars, quiet, variant, cut, hwVars, cbs, stopped_which, call, cblabel, cbtodo,
                 cblevel>>

\* _cb: self._stopped_which = label
CbWhich ==
  /\ cbpc = "c_which"
  /\ stopped_which' = cblabel
  /\ CbNext
  /\ UNCHANGED <<lifeVars, quiet, variant, cut, hwVars, cbs, stopped_reason, call>>

\* ------------------------------------------------------------ specification
\* the steps of one directed move in control/stepper_control.py
MoveCall(c) ==
  \/ \E n \in Channels : MoveToChannel(c, n)
  \/ \E n \in Channels : MoveBack(c, n)
  \/ MovePrecheck(c)
  \/ InstallResetReason(c)
  \/ InstallResetWhich(c)
  \/ InstallLeft(c)
  \/ InstallRight(c)
  \/ BuildPeriodWave(c)
  \/ WaveChain(c)
  \/ WaitBusy(c)
  \/ Sleep(c)
  \/ FinallyStop(c)
  \/ ClearCancel(c)
  \/ ClearList(c)
  \/ FinallyDelete(c)
  \/ ReturnStatus(c)

\* the steps that only home() takes
HomeCall(c) ==
  \/ HomeStepper(c)
  \/ HomePrecheckLeft(c)
  \/ HomePrecheckRight(c)
  \/ HomeSetDir(c)
  \/ WaveSendRepeat(c)

CallControl(c) == MoveCall(c) \/ HomeCall(c)

CallerStep(c) == CallControl(c) \/ MoveSetDir(c) \/ Interrupt(c) \/ Return(c)

Engine == EmitChain \/ EmitRepeat

Environment == \E s \in Side : Trip(s) \/ Release(s)

CallbackThread == Dispatch \/ CbBusy \/ CbStop \/ CbCheck \/ CbReason \/ CbWhich

\* one calling thread, as in the orchestration loops
Next == CallerStep(1) \/ Engine \/ Environment \/ CallbackThread

Spec == Init /\ [][Next]_vars


\* two threads, each making one directed move through the facade of
\* control/stepper_control.py on the same controller, both switches open
InitTwo == Init /\ variant = "control" /\ sw = [s \in Side |-> FALSE]

NextTwo == (\E c \in Callers : MoveCall(c)) \/ EmitChain

SpecTwo == InitTwo /\ [][NextTwo]_vars

\* the module from import on: init_stepper, motion calls and cleanup_all in
\* any order from one thread, any configuration, the daemon up or down, a
\* failing waveform creation or release step, the switches at rest in any
\* position
InitLife ==
  /\ variant \in Variants
  /\ sw \in [Side -> BOOLEAN]
  /\ Quiescent
  /\ NoLoop
  /\ ShippedConfig
  /\ cfg_travel \in {0, TRAVEL_PER_REV_CM}
  /\ cfg_enable \in BOOLEAN
  /\ daemon \in BOOLEAN
  /\ stepper = 0
  /\ connects = 0
  /\ setups = 0
  /\ en_level = 0 - 1
  /\ pi_open = FALSE
  /\ hist = <<>>

LifeStep ==
  \/ InitStepper
  \/ CleanupAll
  \/ DaemonFlip
  \/ NotInitialized(1)
  \/ MoveConfigError(1)

NextLife ==
  \/ LifeStep
  \/ CallerStep(1)
  \/ BuildFails(1)
  \/ InterruptBeforeTry(1)
  \/ Engine

SpecLife == InitLife /\ [][NextLife]_vars

\* the distance translation over configurations: a controller built under
\* any admissible spacing / travel / steps-per-rev, switches open, one thread
\* calling move_to_channel, move_back and home_stepper for any channel
Spacings == {0, 5, 19, 20}
Travels == {3, 4, 8}
StepsPerRevs == {1, 200, 6400}
TrChannels == 0..MaxTrChannel

InitTr ==
  /\ variant \in Variants
  /\ sw = [s \in Side |-> FALSE]
  /\ Quiescent
  /\ NoLoop
  /\ cfg_spacing \in Spacings
  /\ cfg_travel \in Travels
  /\ cfg_spr \in StepsPerRevs
  /\ ShippedDelays
  /\ to_log = [n \in TrChannels |-> 0 - 1]
  /\ dir_log = [op \in FacadeOps |-> 0 - 1]
  /\ NoBounce
  /\ cfg_enable = FALSE
  /\ daemon = TRUE
  /\ stepper = 1
  /\ connects = 1
  /\ setups = 1
  /\ en_level = 0 - 1
  /\ pi_open = TRUE
  /\ hist = <<LifeRecord("init_stepper", FALSE, 1, FALSE, {})>>

NextTr ==
  \/ \E n \in TrChannels : MoveToChannel(1, n)
  \/ \E n \in TrChannels : MoveBack(1, n)
  \/ CallerStep(1)
  \/ Engine

SpecTr == InitTr /\ [][NextTr]_vars

\* both observers of the two switch pins, the switches opening and closing
\* freely: a process that built the controller homes with its handlers
\* (main_button.py), a process without one uses sensors/limit_switch.py and
\* attaches and detaches on_change at any time (main.py)
InitMon ==
  /\ variant \in Variants
  /\ sw \in [Side -> BOOLEAN]
  /\ Quiescent
  /\ NoLoop
  /\ ShippedConfig
  /\ cfg_travel = TRAVEL_PER_REV_CM
  /\ cfg_enable = FALSE
  /\ daemon = TRUE
  /\ stepper \in {0, 1}
  /\ connects = stepper
  /\ setups = stepper
  /\ en_level = 0 - 1
  /\ pi_open = (stepper = 1)
  /\ hist = <<>>

HomeRun ==
  \/ HomeCall(1)
  \/ InstallResetReason(1)
  \/ InstallResetWhich(1)
  \/ InstallLeft(1)
  \/ InstallRight(1)
  \/ BuildPeriodWave(1)
  \/ WaitBusy(1)
  \/ Sleep(1)
  \/ FinallyStop(1)
  \/ ClearCancel(1)
  \/ ClearList(1)
  \/ FinallyDelete(1)
  \/ Return(1)
  \/ EmitRepeat

NextMon ==
  \/ HomeRun
  \/ Environment
  \/ CallbackThread
  \/ stepper = 0 /\ LsAttach
  \/ LsDetach
  \/ LsDispatch

SpecMon == InitMon /\ [][NextMon]_vars

\* homing onto a bouncing switch: the raw level of one switch pin is
\* followed through the glitch filter __init__ installed, the other switch
\* stays open
InitDeb ==
  /\ variant \in Variants
  /\ sw = [s \in Side |-> FALSE]
  /\ Quiescent
  /\ NoLoop
  /\ cfg_spacing = CHANNEL_SPACING_CM
  /\ cfg_spr = STEPPER_STEPS_PER_REV
  /\ ShippedDelays
  /\ to_log = <<>>
  /\ dir_log = <<>>
  /\ \E s \in Side :
       /\ raw = [x \in {s} |-> 1]
       /\ age = [x \in {s} |-> Window]
       /\ deb = [x \in {s} |-> [n |-> 0, hits |-> 0, from |-> 1]]
  /\ cfg_travel = TRAVEL_PER_REV_CM
  /\ cfg_enable = FALSE
  /\ daemon = TRUE
  /\ stepper = 1
  /\ connects = 1
  /\ setups = 1
  /\ en_level = 0 - 1
  /\ pi_open = TRUE
  /\ hist = <<>>

NextDeb ==
  \/ HomeRun
  \/ CallbackThread
  \/ \E s \in DOMAIN raw : RawEdge(s)
  \/ \E s \in DOMAIN raw : Trip(s)
  \/ \E s \in DOMAIN raw : Release(s)
  \/ Tick

SpecDeb == InitDeb /\ [][NextDeb]_vars

\* the period builder over requested half-periods: 0, 0.4, 1.5, 2.5 and
\* 3.5 microseconds and the shipped values, for directed moves and homing
Delays == {0, 4, 15, 25, 35, STEPPER_STEP_DELAY_S, HOME_STEP_DELAY_S}

InitWave ==
  /\ variant \in Variants
  /\ sw = [s \in Side |-> FALSE]
  /\ Quiescent
  /\ NoLoop
  /\ cfg_spacing = CHANNEL_SPACING_CM
  /\ cfg_spr = STEPPER_STEPS_PER_REV
  /\ cfg_step_delay \in Delays
  /\ cfg_home_delay \in Delays
  /\ to_log = <<>>
  /\ dir_log = <<>>
  /\ NoBounce
  /\ cfg_travel = TRAVEL_PER_REV_CM
  /\ cfg_enable = FALSE
  /\ daemon = TRUE
  /\ stepper = 1
  /\ connects = 1
  /\ setups = 1
  /\ en_level = 0 - 1
  /\ pi_open = TRUE
  /\ hist = <<>>

NextWave == CallerStep(1) \/ Engine

SpecWave == InitWave /\ [][NextWave]_vars

\* the orchestration loop's thread with pigpio's threads scheduled fairly;
\* nothing obliges the caller to start a call, to interrupt it, or a switch
\* to move
CallerRuns == CallControl(1) \/ MoveSetDir(1)
InCall == call[1].pc \notin {"idle", "returned", "raised"}

FairSpec ==
  /\ Init
  /\ [][Next]_vars
  /\ WF_vars(InCall /\ CallerRuns)
  /\ WF_vars(Engine)
  /\ WF_vars(CallbackThread)

\* ------------------------------------------------- one rig, either module
\* the rig is handed from the program that imports control.stepper_control
\* to the one that imports control_2.stepper_control, or back, between calls
SwapModule ==
  /\ call[1].pc = "idle"
  /\ tx = "idle"
  /\ registered = {}
  /\ variant' = CHOOSE v \in Variants : v # variant
  /\ UNCHANGED <<lifeVars, quiet, cut, hwVars, objVars, call, cbVars>>

\* the same calls under the same configuration and the same switch readings,
\* the switches at rest, made under one module and then under the other
InitSwap ==
  /\ variant \in Variants
  /\ sw \in [Side -> BOOLEAN]
  /\ Quiescent
  /\ ShippedConfig
  /\ mainpc = "none"
  /\ main_ch = 0
  /\ trapdoor = "closed"
  /\ cyc = None
  /\ main_prev = <<>>
  /\ ref = Result(None, IdleFrame, 0)
  /\ cfg_travel = TRAVEL_PER_REV_CM
  /\ cfg_enable = FALSE
  /\ daemon = TRUE
  /\ stepper = 1
  /\ connects = 1
  /\ setups = 1
  /\ en_level = 0 - 1
  /\ pi_open = TRUE
  /\ hist = <<>>

NextSwap ==
  \/ MoveCall(1)
  \/ MoveSetDir(1)
  \/ Return(1)
  \/ EmitChain
  \/ SwapModule

SpecSwap == InitSwap /\ [][NextSwap]_vars

\* ---------------------------------------------------------------- main()
\* what a step of main() itself leaves alone
notMain == <<coreLife, xVars, quiet, variant, cut, hwVars, objVars, call, cbVars, ref>>

\* ch = wait_for_button(); the image is captured and the channel looked up
MainButton ==
  /\ mainpc = "button"
  /\ \E ch \in 1..MaxChannel : main_ch' = ch
  /\ mainpc' = "to"
  /\ cyc' = None
  /\ UNCHANGED <<trapdoor, main_prev, notMain>>

\* move_to_channel(channel): the value it returns is not bound to a name
MainTo == mainpc = "to" /\ MoveToChannel(1, main_ch)

\* open_trapdoor(), on the line after move_to_channel(channel)
MainOpen ==
  /\ mainpc = "open"
  /\ trapdoor' = "open"
  /\ mainpc' = "close"
  /\ UNCHANGED <<main_ch, cyc, main_prev, notMain>>

\* time.sleep(1); close_trapdoor()
MainClose ==
  /\ mainpc = "close"
  /\ trapdoor' = "closed"
  /\ mainpc' = "back"
  /\ UNCHANGED <<main_ch, cyc, main_prev, notMain>>

\* move_back(channel)
MainBack == mainpc = "back" /\ MoveBack(1, main_ch)

\* home_stepper(), at startup and at the end of a cycle
MainHome == mainpc \in {"startup_home", "home"} /\ HomeStepper(1)

\* startup: close_trapdoor() before the loop is entered
MainStartupClose ==
  /\ mainpc = "startup_close"
  /\ trapdoor' = "closed"
  /\ mainpc' = "button"
  /\ UNCHANGED <<main_ch, cyc, main_prev, notMain>>

\* main(): the positions inside `while True`
InLoop(at) == at \in {"button", "to", "open", "close", "back", "home"}

\* KeyboardInterrupt between two motion calls, inside the try
MainInterrupt ==
  /\ mainpc \in {"button", "to", "open", "close", "back", "home"}
  /\ Frame(1).pc = "idle"
  /\ mainpc' = "finally"
  /\ UNCHANGED <<main_ch, trapdoor, cyc, main_prev, notMain>>

\* finally: ... cleanup_all()
MainFinally == mainpc = "finally" /\ CleanupAll

\* the steps inside a motion call, once the facade has been entered
CallBody(c) ==
  \/ MovePrecheck(c)
  \/ MoveSetDir(c)
  \/ HomePrecheckLeft(c)
  \/ HomePrecheckRight(c)
  \/ HomeSetDir(c)
  \/ InstallResetReason(c)
  \/ InstallResetWhich(c)
  \/ InstallLeft(c)
  \/ InstallRight(c)
  \/ BuildPeriodWave(c)
  \/ WaveChain(c)
  \/ WaveSendRepeat(c)
  \/ WaitBusy(c)
  \/ Sleep(c)
  \/ Interrupt(c)
  \/ FinallyStop(c)
  \/ ClearCancel(c)
  \/ ClearList(c)
  \/ FinallyDelete(c)
  \/ ReturnStatus(c)
  \/ Return(c)

\* main() from its first home_stepper() on, init_stepper() done
InitMain ==
  /\ variant \in Variants
  /\ sw \in [Side -> BOOLEAN]
  /\ Quiescent
  /\ ShippedConfig
  /\ mainpc = "startup_home"
  /\ main_ch = 0
  /\ trapdoor = "closed"
  /\ cyc = None
  /\ main_prev = <<>>
  /\ ref = <<>>
  /\ cfg_travel = TRAVEL_PER_REV_CM
  /\ cfg_enable = FALSE
  /\ daemon = TRUE
  /\ stepper = 1
  /\ connects = 1
  /\ setups = 1
  /\ en_level = 0 - 1
  /\ pi_open = TRUE
  /\ hist = <<>>

NextMain ==
  \/ MainHome
  \/ MainStartupClose
  \/ MainButton
  \/ MainTo
  \/ MainOpen
  \/ MainClose
  \/ MainBack
  \/ MainInterrupt
  \/ MainFinally
  \/ CallBody(1)
  \/ Engine
  \/ Environment
  \/ CallbackThread

SpecMain == InitMain /\ [][NextMain]_vars

\* main() with switches that close and stay closed: the order of its calls
NextLoop ==
  \/ MainHome
  \/ MainStartupClose
  \/ MainButton
  \/ MainTo
  \/ MainOpen
  \/ MainClose
  \/ MainBack
  \/ MainInterrupt
  \/ MainFinally
  \/ CallBody(1)
  \/ Engine
  \/ (\E s \in Side : Trip(s))
  \/ CallbackThread

SpecLoop == InitMain /\ [][NextLoop]_vars

\* directed moves only, one after another; a switch may close at any time
\* and then stays closed (its release stops or starts no transmission);
\* pigpio's threads and the caller's loop are scheduled fairly, and nothing
\* obliges the caller to start a move or to interrupt one
NextMove ==
  \/ MoveCall(1)
  \/ MoveSetDir(1)
  \/ Interrupt(1)
  \/ Return(1)
  \/ EmitChain
  \/ \E s \in Side : Trip(s)
  \/ CallbackThread

FairMove ==
  /\ Init
  /\ [][NextMove]_vars
  /\ WF_vars(InCall /\ (MoveCall(1) \/ MoveSetDir(1)))
  /\ WF_vars(EmitChain)
  /\ WF_vars(CallbackThread)

F1 == call[1]
IsMove(f) == f.op \in {"move_to_channel", "move_back"}
Leading(f) == IF f.steps >= 0 THEN "Right" ELSE "Left"
Trailing(f) == IF f.steps >= 0 THEN "Left" ELSE "Right"
\* positions between the reset in _install_callbacks and the return
AfterReset ==
  {"i_left", "i_right", "build", "start", "wait", "sleep", "f_stop",
   "f_clear", "f_delete", "r_reason", "returned", "raised"}
\* positions between arming the handlers and returning
InMotion ==
  {"build", "start", "wait", "sleep", "f_stop", "f_clear", "f_delete",
   "r_reason"}

\* C1: a directed move (nonzero step count; the zero-step move is a no-op)
\* whose first statement runs while the leading switch reads active returns
\* at once with status stopped, cause that side, and zero pulses emitted.
C1_RefusesIntoActiveLimit ==
  [][(F1.pc = "m_pre" /\ sw[Leading(F1)] /\ call[1]' # F1)
       => /\ call[1]'.pc = "returned"
          /\ call[1]'.status = "stopped"
          /\ call[1]'.which = Leading(F1)
          /\ pulses' = 0]_vars

\* C2: when the leading switch's handler has cancelled the pulse train of a
\* directed move, the move returns status stopped with that side as cause.
C2_TripReturnsStopped ==
  (variant = "control" /\ IsMove(F1) /\ F1.pc = "returned" /\ cut = Leading(F1))
    => (F1.status = "stopped" /\ F1.which = Leading(F1))

\* C3: during a directed move the trailing switch is not armed: its handler
\* never cancels the pulse train of the move.
C3_TrailingMasked ==
  (variant = "control" /\ IsMove(F1) /\ F1.pc \in InMotion) => cut # Trailing(F1)

\* C4: within one call, once a stop cause is recorded no further pulse is
\* emitted before the call returns.
C4_NoPulseAfterCause ==
  [][(variant = "control" /\ F1.pc \in AfterReset /\ stopped_reason # None
        /\ call[1]'.pc # "idle")
       => pulses' = pulses]_vars

\* C5: within one call, once a handler has recorded the stop cause (reason and
\* side both written), no later handler firing changes the reason or the side.
C5_FirstWriteWins ==
  [][(F1.pc \in AfterReset /\ stopped_reason # None /\ cbpc # "c_which")
       => UNCHANGED <<stopped_reason, stopped_which>>]_vars

\* C5 witness: a second handler, for the other switch, has fired and is at
\* its test of the recorded cause while the first cause stands
C5_Witness ==
  /\ F1.pc \in AfterReset
  /\ stopped_reason \in Side
  /\ stopped_which = stopped_reason
  /\ cbpc = "c_check"
  /\ cblabel # stopped_reason

\* C6: two motion calls are never both between arming and returning.
C6_Serialized ==
  ~(call[1].pc \in InMotion /\ call[2].pc \in InMotion)

\* C7: home() whose pre-check point is reached while a switch reads active
\* returns without moving: a read of an active switch ends the call, with no
\* pulse, no waveform and no handler.
C7_HomeRefusesWhenActive ==
  [][(F1.op = "home" /\ call[1]' # F1
        /\ \/ F1.pc = "h_pre" /\ sw["Left"]
           \/ F1.pc = "h_preR" /\ sw["Right"])
       => /\ call[1]'.pc = "returned"
          /\ pulses' = 0
          /\ waves' = waves
          /\ registered' = registered]_vars

\* C8: when home() returns after transmitting, a tripped side is recorded.
C8_HomeRecordsSide ==
  (variant = "control" /\ F1.op = "home" /\ F1.pc = "returned" /\ F1.wid # 0 - 1)
    => stopped_which \in Side

\* C9: a switch that is active after home() passed its pre-check leads to
\* home() returning (or, at the least, to the switch having opened again).
HomePastPrecheck ==
  /\ variant = "control"
  /\ F1.op = "home"
  /\ F1.pc \in {"h_dir", "i_reason", "i_which"} \cup (AfterReset \ {"returned", "raised"})

HomeOver == F1.pc \in {"returned", "raised", "idle"}

C9_HomeTerminatesOnTrip ==
  /\ (HomePastPrecheck /\ sw["Left"]) ~> (HomeOver \/ ~sw["Left"])
  /\ (HomePastPrecheck /\ sw["Right"]) ~> (HomeOver \/ ~sw["Right"])

\* C10: when an interrupt raised inside home()'s try block (while the
\* repeating wave is transmitted) propagates out of home(), the wave is not
\* transmitting and no handler the call registered is still registered.
C10_InterruptedHomeClean ==
  (F1.op = "home" /\ F1.pc = "raised" /\ F1.exc)
    => (tx = "idle" /\ \A r \in registered : r[1] # 1)

\* C10 witness: home() was interrupted after pulses of the repeating wave
C10_Witness ==
  F1.op = "home" /\ F1.pc = "raised" /\ F1.exc /\ pulses > 0

\* C11: when a call that built a waveform has returned or raised, that
\* waveform no longer exists in the daemon.
C11_WaveDeleted ==
  (F1.pc \in {"returned", "raised"} /\ F1.wid # 0 - 1) => F1.wid \notin waves

\* C12: when move_steps or home has returned or raised, no callback the call
\* registered is still registered.
C12_NoCallbackRemains ==
  F1.pc \in {"returned", "raised"} => \A r \in registered : r[1] # 1

\* C13: move_to_channel(n) / move_back(n) for n <= 1, and any move whose
\* computed step count is 0, returns {ok, None} at once and changes nothing
\* in the hardware or the controller: DIR, callbacks, waveforms, transmission.
C13_ZeroStepNoOp ==
  [][\A n \in Channels :
       ((MoveToChannel(1, n) \/ MoveBack(1, n)) /\ (n <= 1 \/ call[1]'.steps = 0))
         => /\ call[1]'.pc = "returned"
            /\ call[1]'.status = "ok"
            /\ call[1]'.which = None
            /\ UNCHANGED <<dir_pin, registered, pending, cbs, waves, tx, remaining,
                           stopped_reason, stopped_which>>]_vars

\* C13 witness: move_back on a zero step count returned ok while the Left
\* switch, the one a backward move would run into, reads active
C13_Witness ==
  /\ F1.op = "move_back"
  /\ F1.steps = 0
  /\ F1.pc = "returned"
  /\ F1.status = "ok"
  /\ sw["Left"]

\* C14: a directed move during which no switch reads active or trips
\* returns status ok with no cause.
C14_NoStopLeak ==
  (variant = "control" /\ IsMove(F1) /\ F1.pc = "returned" /\ quiet)
    => (F1.status = "ok" /\ F1.which = None)

\* C15: a value returned by move_to_channel / move_back is {ok, None} or
\* {stopped, Left or Right}, and a move raises only on an interrupt.
C15_ResultIsValue ==
  /\ (variant = "control" /\ IsMove(F1) /\ F1.pc = "returned")
       => \/ F1.status = "ok" /\ F1.which = None
          \/ F1.status = "stopped" /\ F1.which \in Side
  /\ (variant = "control" /\ IsMove(F1) /\ F1.pc = "raised") => F1.exc

Last(h) == h[Len(h)]

\* C16: init_stepper() called while a controller exists returns that
\* controller and opens no connection and configures no pin.
C16_InitIdempotent ==
  [][(InitStepper /\ stepper # 0)
       => /\ stepper' = stepper
          /\ Last(hist').ret = stepper
          /\ ~Last(hist').raised
          /\ UNCHANGED <<connects, setups, en_level, pi_open>>]_vars

\* C16 witness: two init_stepper() calls in a row returned the same
\* controller over one connection
C16_Witness ==
  /\ Len(hist) = 2
  /\ hist[1].op = "init_stepper" /\ hist[2].op = "init_stepper"
  /\ hist[1].ret # 0 /\ hist[2].ret = hist[1].ret
  /\ ~hist[1].had /\ hist[2].had
  /\ connects = 1

\* C17: init_stepper() with the daemon unreachable raises after one
\* connection attempt, configures no pin and leaves _stepper None; and a
\* motion call that gets past the facade's check runs on a connected controller.
C17_UnreachableBackend ==
  [][/\ (InitStepper /\ stepper = 0 /\ ~daemon)
          => /\ stepper' = 0
             /\ connects' = connects + 1
             /\ Last(hist').raised
             /\ UNCHANGED <<setups, en_level, dir_pin, registered>>
     /\ (call[1]'.pc # "idle" /\ call[1]'.err # "not_initialized") => pi_open']_vars

\* C17 witness: a motion call after a failed init_stepper() raised
\* not-initialized
C17_Witness ==
  /\ hist # <<>>
  /\ Last(hist).op = "init_stepper" /\ Last(hist).raised
  /\ stepper = 0
  /\ F1.pc = "raised" /\ F1.err = "not_initialized"

\* C18: no move_to_channel / move_back call on an initialized controller
\* fails because of the travel-per-revolution value.
C18_TravelCheckedAtInit ==
  (IsMove(F1) /\ F1.pc = "raised") => F1.err # "ValueError"

\* C19: of two cleanup_all() calls with no init_stepper() between them (the
\* first on an existing controller), or of a cleanup_all() after a failed
\* init_stepper(), none raises, and with an enable pin the enable line is HIGH.
C19_CleanupTwice ==
  /\ (Len(hist) = 2 /\ hist[1].op = "cleanup_all" /\ hist[1].had
        /\ hist[2].op = "cleanup_all")
       => /\ ~hist[1].raised /\ ~hist[2].raised
          /\ cfg_enable => en_level = 1
  /\ (Len(hist) = 2 /\ hist[1].op = "init_stepper" /\ hist[1].raised
        /\ hist[2].op = "cleanup_all")
       => ~hist[2].raised

\* C20: cleanup_all() on an existing controller attempts every release step
\* and does not raise, whichever single step fails.
C20_CleanupBestEffort ==
  (hist # <<>> /\ Last(hist).op = "cleanup_all" /\ Last(hist).had)
    => (~Last(hist).raised /\ Last(hist).tried = PresentSteps)

\* C21: for every channel n >= 1, move_to_channel(n) hands move_steps the
\* integer nearest to spacing * (n - 1) / travel_per_rev * steps_per_rev
\* (a tie goes to the even integer, as round() does); spacing 20, travel 4,
\* 200 steps per revolution and channel 3 give 2000 steps
C21_ChannelSteps ==
  [][\A n \in 1..MaxTrChannel :
       MoveToChannel(1, n) =>
         LET s == call'[1].steps
             num == cfg_spacing * (n - 1) * cfg_spr
             off == Abs(s * cfg_travel - num)
         IN  /\ call'[1].op = "move_to_channel"
             /\ 2 * off <= cfg_travel
             /\ (2 * off = cfg_travel => s % 2 = 0)]_vars

C21_Witness ==
  /\ cfg_spacing = 20 /\ cfg_travel = 4 /\ cfg_spr = 200
  /\ F1.op = "move_to_channel"
  /\ F1.steps = 2000
  /\ F1.pc = "wait"

\* C22: the channel-to-steps mapping sends channel 1 to 0 steps and is
\* non-decreasing: of the counts move_to_channel has commanded under one
\* configuration, the one for channel m never exceeds the one for n >= m
C22_Monotone ==
  /\ (1 \in DOMAIN to_log => to_log[1] \in {0 - 1, 0})
  /\ \A m, n \in DOMAIN to_log :
       (1 <= m /\ m <= n /\ to_log[m] # 0 - 1 /\ to_log[n] # 0 - 1)
         => to_log[m] <= to_log[n]

C22_Witness ==
  /\ DOMAIN to_log = TrChannels
  /\ to_log[1] = 0
  /\ to_log[2] > 0
  /\ to_log[3] > to_log[2]

\* C23: the count move_back(n) uses is never negative, is 0 whenever the
\* channel distance does not exceed the 5 cm clearance, and otherwise is the
\* integer nearest to (distance - 5) / travel_per_rev * steps_per_rev
C23_ReturnCount ==
  [][\A n \in 1..MaxTrChannel :
       MoveBack(1, n) =>
         LET s == 0 - call'[1].steps
             d == cfg_spacing * (n - 1)
             off == Abs(s * cfg_travel - (d - HOME_CLEARANCE_CM) * cfg_spr)
         IN  /\ call'[1].op = "move_back"
             /\ s >= 0
             /\ (d <= HOME_CLEARANCE_CM => s = 0)
             /\ (d > HOME_CLEARANCE_CM =>
                   /\ 2 * off <= cfg_travel
                   /\ (2 * off = cfg_travel => s % 2 = 0))]_vars

\* a return from channel 2 at 19 cm spacing: (19 - 5) / 4 * 200 = 700 steps
C23_Witness ==
  /\ cfg_spacing = 19 /\ cfg_travel = 4 /\ cfg_spr = 200
  /\ F1.op = "move_back"
  /\ F1.steps = 0 - 700

\* C24: the DIR level move_back writes (it writes one only for a nonzero
\* return count) equals the level home() writes and differs from the level
\* move_to_channel writes
C24_BackTowardHome ==
  (DOMAIN dir_log = FacadeOps /\ dir_log["move_back"] # 0 - 1) =>
     /\ (dir_log["home"] # 0 - 1 => dir_log["move_back"] = dir_log["home"])
     /\ (dir_log["move_to_channel"] # 0 - 1
           => dir_log["move_back"] # dir_log["move_to_channel"])

C24_Witness ==
  /\ DOMAIN dir_log = FacadeOps
  /\ \A op \in FacadeOps : dir_log[op] # 0 - 1
  /\ variant = "control"

\* C25 (as claimed): a handler registered with the limit switch monitor is
\* invoked only for falling transitions of its switch, never for a rising one
C25_OnlyFalling ==
  /\ (cbpc # "idle" => cblevel = 0)
  /\ (ls_last # <<>> => ls_last[2])

\* C25 (amended): the controller's handlers get one notification per falling
\* transition of a monitored switch, none for a rising one, and run only for
\* falling ones; limit_switch's on_change gets one notification per transition
\* in either direction and is called with activated = (the pin fell)
C25_EdgesAsRegistered ==
  [][/\ (cbpc' # "idle" => cblevel' = 0)
     /\ \A s \in Side :
          /\ (Trip(s) /\ Monitored(s) => pending' = Append(pending, <<s, 0>>))
          /\ (Release(s) => pending' = pending)
          /\ (Trip(s) /\ s \in ls_cb => ls_pending' = Append(ls_pending, <<s, 0>>))
          /\ (Release(s) /\ s \in ls_cb => ls_pending' = Append(ls_pending, <<s, 1>>))
     /\ (LsDispatch /\ Head(ls_pending)[1] \in ls_cb
          => ls_last' = <<Head(ls_pending)[1], Head(ls_pending)[2] = 0>>)]_vars

\* a handler of the controller runs for a switch that has already opened
\* again: the falling edge invoked it, the rising edge did not
C25_Witness ==
  /\ cbpc = "c_stop"
  /\ cblevel = 0
  /\ ~sw[cblabel]
  /\ pending = <<>>

C27_ClampedPeriod ==
  wave_def # <<>> =>
    /\ wave_def[1] = wave_def[2]
    /\ wave_def[1] >= 2
    /\ (F1.pc \in {"start", "wait", "sleep"} =>
          /\ F1.us = wave_def[1]
          /\ (F1.delay > 25 => 2 * Abs(10 * wave_def[1] - F1.delay) <= 10)
          /\ (IsMove(F1) =>
                /\ F1.freq * 2 * wave_def[1] <= 1000000
                /\ (F1.freq + 1) * 2 * wave_def[1] > 1000000))

\* a move asked for a 0.4 microsecond half-period transmits 2 + 2
\* microsecond periods and reports 250 kHz
C27_Witness ==
  /\ F1.op = "move_to_channel"
  /\ F1.pc = "wait"
  /\ F1.delay = 4
  /\ wave_def = <<2, 2>>
  /\ F1.freq = 250000

\* C28: the stop cause that decides a move's result is read only once no
\* wave is being transmitted and none of the call's handlers is registered
\* any more (home() returns no result; no step of either call consults a clock)
C28_ReadAfterQuiesce ==
  ENABLED ReturnStatus(1) =>
    /\ tx = "idle"
    /\ cbs = <<>>
    /\ ~\E r \in registered : r[1] = 1

\* a move cut short by a trip, about to return "stopped"
C28_Witness ==
  /\ F1.pc = "returned"
  /\ IsMove(F1)
  /\ F1.status = "stopped"
  /\ cut # None
  /\ registered = {}

\* C29: once a directed move has started transmitting its (finite) count, the
\* call returns or raises, provided the caller's loop, the wave engine and
\* the callback thread keep taking steps
C29_MoveTerminates ==
  (IsMove(F1) /\ F1.pc = "wait") ~> (F1.pc \in {"returned", "raised"})

\* a move that ran to the end of its count and returned "ok"
C29_Witness ==
  /\ IsMove(F1)
  /\ F1.pc = "returned"
  /\ F1.status = "ok"
  /\ pulses > PulseCap

C31_AllPulses ==
  (IsMove(F1) /\ F1.pc = "returned" /\ quiet /\ ~F1.exc) => pulses = Abs(F1.steps)

\* C32: a directed move that has emitted all |steps| pulses of its call returns
\* status ok, also when a switch closes after the last pulse and before the
\* handlers are cancelled
C32_CompleteIsOk ==
  (IsMove(F1) /\ F1.pc = "returned" /\ F1.steps # 0 /\ pulses = Abs(F1.steps))
    => F1.status = "ok"

\* C33: the pre-check of a directed move looks only at the leading switch: with
\* the trailing switch reading active and the leading one open (forward with
\* Left active as after homing, backward with Right active) the move is not
\* refused and goes on to write DIR and arm its handlers
C33_TrailingNotRefused ==
  [][(MovePrecheck(1) /\ sw[Trailing(F1)] /\ ~sw[Leading(F1)])
       => (F1'.pc = "i_reason" /\ F1'.status # "stopped")]_vars

\* a forward move transmitting while Left has read active since the call
\* began and Right is open, no handler having touched the wave
C33_Witness ==
  /\ F1.op = "move_to_channel"
  /\ variant = "control"
  /\ tx = "chain"
  /\ pulses > 0
  /\ sw["Left"]
  /\ ~sw["Right"]
  /\ stopped_reason = None
  /\ pending = <<>>
  /\ cbpc = "idle"

\* C34: home_stepper, move_to_channel and move_back called while the module
\* holds no controller (before init_stepper, after one that failed, after
\* cleanup_all) raise the not-initialized error and touch no hardware state
C34_NotInitializedRaises ==
  [][(stepper = 0 /\ F1.pc = "idle" /\ F1'.pc # "idle")
       => /\ F1'.pc = "raised"
          /\ F1'.err = "not_initialized"
          /\ UNCHANGED <<hwVars, objVars, wave_def, en_level, pi_open, connects>>]_vars

\* a motion call raised not-initialized after cleanup_all had released a controller
C34_Witness ==
  /\ F1.pc = "raised"
  /\ F1.err = "not_initialized"
  /\ hist # <<>>
  /\ hist[Len(hist)].op = "cleanup_all"
  /\ hist[Len(hist)].had

\* C35: once cleanup_all has returned or raised the module holds no controller,
\* also when cleanup() failed part-way; an init_stepper that hands back a
\* controller therefore never hands back one whose connection was closed
C35_NoStaleInstance ==
  [][/\ CleanupAll => stepper' = 0
     /\ InitStepper => (stepper' # 0 => pi_open')]_vars

\* cleanup_all raised part-way, and the next init_stepper built a new controller
C35_Witness ==
  /\ Len(hist) = 2
  /\ hist[1].op = "cleanup_all"
  /\ hist[1].raised
  /\ hist[1].had
  /\ hist[2].op = "init_stepper"
  /\ ~hist[2].had
  /\ hist[2].ret # 0
  /\ stepper = hist[2].ret
  /\ pi_open

\* C36: for every channel n, the count move_back(n) commands is at most the
\* count move_to_channel(n) commanded under the same configuration, so the
\* return never asks for more steps toward home than the outward move made
C36_BackAtMostTo ==
  [][\A n \in TrChannels :
       (MoveBack(1, n) /\ to_log[n] >= 0) =>
         /\ 0 - call'[1].steps >= 0
         /\ 0 - call'[1].steps <= to_log[n]]_vars

\* move_to_channel(2) commanded 950 steps and move_back(2) then commands 700
C36_Witness ==
  /\ to_log[2] = 950
  /\ F1.op = "move_back"
  /\ F1.pc = "m_pre"
  /\ F1.steps = 0 - 700

C38_SameResult ==
  (/\ IsMove(F1)
   /\ F1.pc = "returned"
   /\ ref.by \in Variants \ {variant}
   /\ ref.op = F1.op
   /\ ref.steps = F1.steps)
    => ref = Result(ref.by, F1, pulses)

====
